---- MODULE Spec2Model ----
(***************************************************************************)
(* Model of the invoice_ocr repository: the batch migration that persists  *)
(* analyses of PDF invoices into the SQLite table invoice_data             *)
(* (migration.py), and the upload -> file_data -> provider request path of *)
(* the Flask API (api.py) and the Streamlit front ends (app.py,            *)
(* deploy_app.py, pippin_demo.py).                                         *)
(***************************************************************************)
EXTENDS Integers, Sequences, FiniteSets, TLC

(***************************************************************************)
(* Bounds of the model.                                                    *)
(***************************************************************************)
MaxPages == 2
MaxRuns == 2
MaxTime == 1
MaxTextLen == 3

(***************************************************************************)
(* Strings.  A Python str is a TLA+ string; Char(s, i) is s[i-1].          *)
(***************************************************************************)
Char(s, i) == SubSeq(s, i, i)

Range(f) == {f[i] : i \in DOMAIN f}

(***************************************************************************)
(* json.loads / json.dumps of the Python standard library, as called by    *)
(* analyze_invoice.  The scanner is Python's on texts over JsonAlphabet    *)
(* (it knows no floats, signs, \u escapes: those characters are outside    *)
(* the alphabet the model draws texts from).                               *)
(* A parsed value is [t, s, keys, items]: t is "int", "str", "lit",        *)
(* "list" or "dict"; s the digits / characters / literal; items the list   *)
(* elements or the dict values, keys the dict keys in insertion order.     *)
(***************************************************************************)
JsonAlphabet == {"[", "]", "{", "}", ",", ":", " ", "1", "\"", "\\", "a", "n", "\n"}

Whitespace == {" ", "\t", "\n", "\r"}

ControlChars == {"\t", "\n", "\r"}

Digits == {"1", "2", "3", "4", "5", "6", "7", "8", "9"}

NoVal == [t |-> "none", s |-> "", keys |-> <<>>, items |-> <<>>]

JInt(d) == [t |-> "int", s |-> d, keys |-> <<>>, items |-> <<>>]

JStr(x) == [t |-> "str", s |-> x, keys |-> <<>>, items |-> <<>>]

JLit(x) == [t |-> "lit", s |-> x, keys |-> <<>>, items |-> <<>>]

JList(vs) == [t |-> "list", s |-> "", keys |-> <<>>, items |-> vs]

JDict(ks, vs) == [t |-> "dict", s |-> "", keys |-> ks, items |-> vs]

ScanFail == [ok |-> FALSE, pos |-> 0, val |-> NoVal]

ScanOk(p, v) == [ok |-> TRUE, pos |-> p, val |-> v]

RECURSIVE SkipWs(_, _)
SkipWs(s, i) ==
    IF i <= Len(s) /\ Char(s, i) \in Whitespace THEN SkipWs(s, i + 1) ELSE i

\* the character an escape sequence \c stands for ("" when \c is invalid)
Unescape(c) ==
    CASE c = "\"" -> "\""
      [] c = "\\" -> "\\"
      [] c = "/" -> "/"
      [] c = "n" -> "\n"
      [] c = "t" -> "\t"
      [] c = "r" -> "\r"
      [] OTHER -> ""

\* py_scanstring (strict): i is the position after the opening quote
RECURSIVE ScanString(_, _, _)
ScanString(s, i, acc) ==
    IF i > Len(s) THEN ScanFail
    ELSE LET c == Char(s, i) IN
         IF c = "\"" THEN ScanOk(i + 1, JStr(acc))
         ELSE IF c = "\\"
              THEN IF i + 1 > Len(s) \/ Unescape(Char(s, i + 1)) = ""
                   THEN ScanFail
                   ELSE ScanString(s, i + 2, acc \o Unescape(Char(s, i + 1)))
              ELSE IF c \in ControlChars THEN ScanFail
                   ELSE ScanString(s, i + 1, acc \o c)

RECURSIVE ScanDigits(_, _)
ScanDigits(s, i) ==
    IF i <= Len(s) /\ Char(s, i) \in Digits THEN ScanDigits(s, i + 1) ELSE i

\* dict[key] = value: a repeated key keeps its place and takes the new value
DictSet(ks, vs, k, v) ==
    IF \E j \in DOMAIN ks : ks[j] = k
    THEN LET j == CHOOSE j \in DOMAIN ks : ks[j] = k
         IN  [keys |-> ks, items |-> [vs EXCEPT ![j] = v]]
    ELSE [keys |-> Append(ks, k), items |-> Append(vs, v)]

\* s.startswith(lit, i)
StartsWith(s, i, lit) == i + Len(lit) - 1 <= Len(s) /\ SubSeq(s, i, i + Len(lit) - 1) = lit

RECURSIVE ScanOnce(_, _), JSONArray(_, _, _), JSONObject(_, _, _, _)
\* scanner.py_make_scanner._scan_once
ScanOnce(s, i) ==
    IF i > Len(s) THEN ScanFail
    ELSE LET c == Char(s, i) IN
         CASE c = "\"" -> ScanString(s, i + 1, "")
           [] c = "{" ->
                LET j == SkipWs(s, i + 1) IN
                IF j <= Len(s) /\ Char(s, j) = "}" THEN ScanOk(j + 1, JDict(<<>>, <<>>))
                ELSE JSONObject(s, j, <<>>, <<>>)
           [] c = "[" ->
                LET j == SkipWs(s, i + 1) IN
                IF j <= Len(s) /\ Char(s, j) = "]" THEN ScanOk(j + 1, JList(<<>>))
                ELSE JSONArray(s, j, <<>>)
           [] c \in Digits ->
                LET j == ScanDigits(s, i) IN ScanOk(j, JInt(SubSeq(s, i, j - 1)))
           [] c = "n" /\ StartsWith(s, i, "null") -> ScanOk(i + 4, JLit("null"))
           [] c = "t" /\ StartsWith(s, i, "true") -> ScanOk(i + 4, JLit("true"))
           [] c = "f" /\ StartsWith(s, i, "false") -> ScanOk(i + 5, JLit("false"))
           [] OTHER -> ScanFail

\* decoder.JSONArray: i is the position of the next element
JSONArray(s, i, acc) ==
    LET r == ScanOnce(s, i) IN
    IF ~r.ok THEN ScanFail
    ELSE LET j == SkipWs(s, r.pos)
             vs == Append(acc, r.val)
         IN  IF j > Len(s) THEN ScanFail
             ELSE IF Char(s, j) = "]" THEN ScanOk(j + 1, JList(vs))
             ELSE IF Char(s, j) = "," THEN JSONArray(s, SkipWs(s, j + 1), vs)
             ELSE ScanFail

\* decoder.JSONObject: i is the position of the next key's opening quote
JSONObject(s, i, ks, vs) ==
    IF i > Len(s) \/ Char(s, i) # "\"" THEN ScanFail
    ELSE LET k == ScanString(s, i + 1, "") IN
         IF ~k.ok THEN ScanFail
         ELSE LET c == SkipWs(s, k.pos) IN
              IF c > Len(s) \/ Char(s, c) # ":" THEN ScanFail
              ELSE LET r == ScanOnce(s, SkipWs(s, c + 1)) IN
                   IF ~r.ok THEN ScanFail
                   ELSE LET j == SkipWs(s, r.pos)
                            d == DictSet(ks, vs, k.val.s, r.val)
                        IN  IF j > Len(s) THEN ScanFail
                            ELSE IF Char(s, j) = "}"
                                 THEN ScanOk(j + 1, JDict(d.keys, d.items))
                            ELSE IF Char(s, j) = ","
                                 THEN JSONObject(s, SkipWs(s, j + 1), d.keys, d.items)
                            ELSE ScanFail

\* json.loads(s): ok = FALSE stands for json.JSONDecodeError
json_loads(s) ==
    LET r == ScanOnce(s, SkipWs(s, 1)) IN
    IF r.ok /\ SkipWs(s, r.pos) = Len(s) + 1 THEN r ELSE ScanFail

\* encoder.py_encode_basestring_ascii on one character
EscapeChar(c) ==
    CASE c = "\"" -> "\\\""
      [] c = "\\" -> "\\\\"
      [] c = "\n" -> "\\n"
      [] c = "\t" -> "\\t"
      [] c = "\r" -> "\\r"
      [] OTHER -> c

RECURSIVE EscapeFrom(_, _)
EscapeFrom(x, i) ==
    IF i > Len(x) THEN "" ELSE EscapeChar(Char(x, i)) \o EscapeFrom(x, i + 1)

Quote(x) == "\"" \o EscapeFrom(x, 1) \o "\""

RECURSIVE json_dumps(_), DumpItems(_, _), DumpPairs(_, _, _)
\* json.dumps(v) with the default separators (", ", ": ")
json_dumps(v) ==
    CASE v.t = "int" -> v.s
      [] v.t = "lit" -> v.s
      [] v.t = "str" -> Quote(v.s)
      [] v.t = "list" -> "[" \o DumpItems(v.items, 1) \o "]"
      [] v.t = "dict" -> "{" \o DumpPairs(v.keys, v.items, 1) \o "}"

DumpItems(vs, i) ==
    IF i > Len(vs) THEN ""
    ELSE json_dumps(vs[i]) \o (IF i < Len(vs) THEN ", " ELSE "") \o DumpItems(vs, i + 1)

DumpPairs(ks, vs, i) ==
    IF i > Len(ks) THEN ""
    ELSE Quote(ks[i]) \o ": " \o json_dumps(vs[i])
         \o (IF i < Len(ks) THEN ", " ELSE "") \o DumpPairs(ks, vs, i + 1)

(***************************************************************************)
(* File contents.  The bytes of a file are a PDF document (a sequence of   *)
(* pages, each with a text and a picture pix), an image, or junk that      *)
(* neither fitz.open nor Image.open accepts.                               *)
(***************************************************************************)
Pages == {[text |-> "A", pix |-> 1], [text |-> "B", pix |-> 2]}

Junk == [fmt |-> "junk", pages |-> <<>>, pix |-> 0]

Pdf(ps) == [fmt |-> "pdf", pages |-> ps, pix |-> 0]

Png(x) == [fmt |-> "png", pages |-> <<>>, pix |-> x]

Docs == {Pdf(ps) : ps \in UNION {[1..n -> Pages] : n \in 0..MaxPages}}

Bytes == Docs \cup {Png(3), Junk}

\* fitz.open(path) and Image.open(file) raise on bytes of another format
fitz_open_raises(b) == b.fmt # "pdf"

Image_open_raises(b) == b.fmt # "png"

Image_open(b) == [src |-> "upload", dpi |-> 0, pix |-> b.pix]

Dirs == {"invoices", "archive"}

\* the directory entries
Listing(d) ==
    CASE d = "invoices" -> {"a.pdf", "b.pdf", "notes.txt"}
      [] d = "archive" -> {"b.pdf"}
      [] d = "inbox" -> {"a.pdf", "b.pdf", "c.pdf"}

Path(d, name) == [dir |-> d, name |-> name]

\* what the file at a path holds: archive/b.pdf is not the PDF invoices/b.pdf is
Content(path) ==
    CASE path.dir = "invoices" /\ path.name = "a.pdf" ->
            Pdf(<<[text |-> "A", pix |-> 1], [text |-> "B", pix |-> 2]>>)
      [] path.dir = "invoices" /\ path.name = "b.pdf" -> Pdf(<<[text |-> "B", pix |-> 2]>>)
      [] path.dir = "inbox" -> Pdf(<<[text |-> "A", pix |-> 1]>>)
      [] OTHER -> Junk

FileNames == UNION {Listing(d) : d \in Dirs}

\* Path(invoices_dir).glob('*.pdf'), in any order the directory scan gives
Matches(name) == Len(name) >= 4 /\ SubSeq(name, Len(name) - 3, Len(name)) = ".pdf"

Perms(S) == {s \in [1..Cardinality(S) -> S] : Range(s) = S}

glob(d) == Perms({Path(d, name) : name \in {n \in Listing(d) : Matches(n)}})

(***************************************************************************)
(* migration.py: the helpers of analyze_invoice.                           *)
(***************************************************************************)
DPI == 300

NoImage == [src |-> "none", dpi |-> 0, pix |-> 0]

\* convert_pdf_page_to_image: the page rendered at 300 DPI
convert_pdf_page_to_image(page) == [src |-> "page", dpi |-> DPI, pix |-> page.pix]

RECURSIVE TextFrom(_, _)
TextFrom(ps, i) == IF i > Len(ps) THEN "" ELSE ps[i].text \o TextFrom(ps, i + 1)

extract_text_first_page(pdf_document) ==
    IF Len(pdf_document.pages) = 0 THEN "" ELSE pdf_document.pages[1].text

\* extract_text_from_pdf: the texts of all pages, in page order
extract_text_from_pdf(pdf_document) == TextFrom(pdf_document.pages, 1)

\* what gemini_model.generate_content may do: return a text or raise
Reply(t) == [raises |-> FALSE, text |-> t]

Raise(m) == [raises |-> TRUE, text |-> m]

BatchReplies == {Reply("[1,1]"), Reply("a\"b"), Raise("quota")}

ErrorJson(msg) == json_dumps(JDict(<<"error">>, <<JStr(msg)>>))

\* lines 81-84: the inner try, json.loads or the raw_analysis fallback
json_data_raw(text) ==
    LET r == json_loads(text) IN IF r.ok THEN r.val ELSE JStr(text)

json_data(text) ==
    LET r == json_loads(text) IN
    IF r.ok THEN r.val ELSE JDict(<<"raw_analysis">>, <<JStr(text)>>)

\* the return value of analyze_invoice and the number of model calls it
\* made; with a retry it would call the model again after a failure
analyze_invoice_retry(doc, reply) ==
    IF fitz_open_raises(doc) THEN [ret |-> ErrorJson("cannot open"), calls |-> 0]
    ELSE IF Len(doc.pages) = 0 THEN [ret |-> ErrorJson("page not in document"), calls |-> 0]
    ELSE IF reply.raises THEN [ret |-> ErrorJson(reply.text), calls |-> 2]
    ELSE [ret |-> json_dumps(json_data(reply.text)), calls |-> 1]

analyze_invoice(doc, reply) ==
    IF fitz_open_raises(doc) THEN [ret |-> ErrorJson("cannot open"), calls |-> 0]
    ELSE IF Len(doc.pages) = 0 THEN [ret |-> ErrorJson("page not in document"), calls |-> 0]
    ELSE IF reply.raises THEN [ret |-> ErrorJson(reply.text), calls |-> 1]
    ELSE [ret |-> json_dumps(json_data(reply.text)), calls |-> 1]

(***************************************************************************)
(* Python str methods used by the front ends.                              *)
(***************************************************************************)
UpperCase == "ABCDEFGHIJKLMNOPQRSTUVWXYZ"

LowerCase == "abcdefghijklmnopqrstuvwxyz"

LowerChar(c) ==
    IF \E i \in 1..26 : Char(UpperCase, i) = c
    THEN Char(LowerCase, CHOOSE i \in 1..26 : Char(UpperCase, i) = c)
    ELSE c

RECURSIVE LowerFrom(_, _)
LowerFrom(s, i) == IF i > Len(s) THEN "" ELSE LowerChar(Char(s, i)) \o LowerFrom(s, i + 1)

\* s.lower()
Lower(s) == LowerFrom(s, 1)

RECURSIVE ReplaceFrom(_, _, _, _)
ReplaceFrom(s, old, new, i) ==
    IF i > Len(s) THEN ""
    ELSE (IF Char(s, i) = old THEN new ELSE Char(s, i)) \o ReplaceFrom(s, old, new, i + 1)

\* s.replace(old, new) for a one-character old
Replace(s, old, new) == ReplaceFrom(s, old, new, 1)

RECURSIVE LStrip(_)
LStrip(s) == IF Len(s) > 0 /\ Char(s, 1) \in Whitespace THEN LStrip(SubSeq(s, 2, Len(s))) ELSE s

RECURSIVE RStrip(_)
RStrip(s) ==
    IF Len(s) > 0 /\ Char(s, Len(s)) \in Whitespace THEN RStrip(SubSeq(s, 1, Len(s) - 1)) ELSE s

Strip_none(s) == s

\* s.strip()
Strip(s) == RStrip(LStrip(s))

\* the positions at which t occurs in s
Occurrences(s, t) == {i \in 1..(Len(s) - Len(t) + 1) : SubSeq(s, i, i + Len(t) - 1) = t}

Contains(s, t) == Occurrences(s, t) # {}

Min(S) == CHOOSE m \in S : \A n \in S : m <= n

\* template.format(arg) for a template with one replacement field {}
Format(template, arg) ==
    LET i == Min(Occurrences(template, "{}"))
    IN  SubSeq(template, 1, i - 1) \o arg \o SubSeq(template, i + 2, Len(template))

\* dict.get(key, default)
Get(d, key, default) == IF key \in DOMAIN d THEN d[key] ELSE default

\* Optional values: None and a present value
None == <<>>

Some(v) == <<v>>

(***************************************************************************)
(* The prompt tables.  The texts are the source's, shortened to their      *)
(* first line where the source's runs over many lines.                     *)
(***************************************************************************)
\* prompts.py, imported by app.py
prompts ==
    [k \in {"supplier", "transporter"} |->
        IF k = "supplier"
        THEN "I want you to process the document with high accuracy to generate the following fields and return a json document with filled information {vendorDetails, buyerDetails, invoiceDetails, addressDetails, transportDetails, productDetails, IRN_Number}"
        ELSE "I want you to process the document with high accuracy to generate the following fields and return a json document with filled information {transporterBill}"]

\* deploy_app.py, lines 12-40
deploy_prompts ==
    [k \in {"transporter", "supplier", "generic", "custom"} |->
        CASE k = "transporter" -> "Analyze this transporter invoice and extract key information including: ..."
          [] k = "supplier" -> "Analyze this supplier bill and extract key information including: ..."
          [] k = "generic" -> "Please analyze this document and extract all relevant information including: ..."
          [] k = "custom" -> "Analyze this document according to the following instructions: in JSON format\n{} "]

\* pippin_demo.py, lines 13-27
pippin_prompts ==
    [k \in {"pippin_tax_assessment", "custom", "detailed"} |->
        CASE k = "pippin_tax_assessment" -> "You are an expert in processing documents associated with property and real-estate ..."
          [] k = "custom" -> "Fetch the comma separated values in json format, if the user asked field is not available or unclear return empty field with a user warning"
          [] k = "detailed" -> "Please provide a detailed line-by-line transcript of the document, ..."]

\* input_prompt of the three Streamlit mains
ui_input_prompt == "\nYou are an expert in analyzing documents, including invoices and other business documents.\nPlease analyze the provided document and answer questions based on its contents.\n"

\* input_prompt of analyze_with_gemini and the instruction of analyze_with_openai
api_gemini_prompt == "\nYou are an expert in analyzing invoices. Please extract and summarize the key information ...\n"

api_openai_prompt == "Please analyze this invoice and extract key information including total amount, date, vendor details, line items, and any other relevant information. Present the information in a clear, structured format."

(***************************************************************************)
(* Uploads and process_uploaded_file.                                      *)
(* An upload is its declared content type and its bytes.  The result of    *)
(* process_uploaded_file is the file_data dict, or an exception; tmp is    *)
(* the number of temporary files the call leaves on disk.                  *)
(***************************************************************************)
ContentTypes == {"application/pdf", "application/x-pdf", "image/png", "image/jpeg"}

Uploads == [type : ContentTypes, data : Bytes]

Raised(msg, tmp) == [raised |-> TRUE, err |-> msg, tmp |-> tmp, file_data |-> <<>>]

Returned(fd) == [raised |-> FALSE, err |-> "", tmp |-> 0, file_data |-> <<fd>>]

\* app.py, lines 38-66
app_process_uploaded_file(uploaded_file) ==
    IF uploaded_file.type = "application/pdf"
    THEN IF fitz_open_raises(uploaded_file.data) THEN Raised("cannot open", 1)
         ELSE LET pdf_document == uploaded_file.data IN
              IF Len(pdf_document.pages) = 0 THEN Raised("page not in document", 0)
              ELSE Returned([type |-> "pdf",
                             image |-> convert_pdf_page_to_image(pdf_document.pages[1]),
                             text |-> Some(extract_text_from_pdf(pdf_document)),
                             page_count |-> Len(pdf_document.pages)])
    ELSE IF Image_open_raises(uploaded_file.data) THEN Raised("cannot identify image file", 0)
         ELSE Returned([type |-> "image",
                        image |-> Image_open(uploaded_file.data),
                        text |-> None,
                        page_count |-> 1])

\* deploy_app.py, lines 91-119
deploy_process_uploaded_file(uploaded_file) ==
    IF uploaded_file.type = "application/pdf"
    THEN IF fitz_open_raises(uploaded_file.data) THEN Raised("cannot open", 1)
         ELSE LET pdf_document == uploaded_file.data IN
              IF Len(pdf_document.pages) = 0 THEN Raised("page not in document", 0)
              ELSE Returned([type |-> "pdf",
                             image |-> convert_pdf_page_to_image(pdf_document.pages[1]),
                             text |-> Some(extract_text_from_pdf(pdf_document)),
                             page_count |-> Len(pdf_document.pages)])
    ELSE IF Image_open_raises(uploaded_file.data) THEN Raised("cannot identify image file", 0)
         ELSE Returned([type |-> "image",
                        image |-> Image_open(uploaded_file.data),
                        text |-> None,
                        page_count |-> 1])

\* api.py, lines 42-66: the dict has no page_count
api_process_uploaded_file(file) ==
    IF file.type = "application/pdf"
    THEN IF fitz_open_raises(file.data) THEN Raised("cannot open", 1)
         ELSE LET pdf_document == file.data IN
              IF Len(pdf_document.pages) = 0 THEN Raised("page not in document", 0)
              ELSE Returned([type |-> "pdf",
                             image |-> convert_pdf_page_to_image(pdf_document.pages[1]),
                             text |-> Some(extract_text_from_pdf(pdf_document))])
    ELSE IF Image_open_raises(file.data) THEN Raised("cannot identify image file", 0)
         ELSE Returned([type |-> "image",
                        image |-> Image_open(file.data),
                        text |-> None])

convert_pdf_pages_to_images_first(pdf_document) ==
    [page_num \in 1..(IF Len(pdf_document.pages) = 0 THEN 0 ELSE 1) |->
        convert_pdf_page_to_image(pdf_document.pages[page_num])]

\* pippin_demo.py, lines 58-66
convert_pdf_pages_to_images(pdf_document) ==
    [page_num \in 1..Len(pdf_document.pages) |->
        convert_pdf_page_to_image(pdf_document.pages[page_num])]

\* pippin_demo.py, lines 75-106
pippin_process_uploaded_file(uploaded_file) ==
    IF uploaded_file.type = "application/pdf"
    THEN IF fitz_open_raises(uploaded_file.data) THEN Raised("cannot open", 1)
         ELSE LET pdf_document == uploaded_file.data
                  images == convert_pdf_pages_to_images(pdf_document)
              IN  IF Len(images) = 0 THEN Raised("list index out of range", 0)
                  ELSE Returned([type |-> "pdf",
                                 images |-> images,
                                 first_image |-> images[1],
                                 text |-> Some(extract_text_from_pdf(pdf_document)),
                                 page_count |-> Len(pdf_document.pages)])
    ELSE IF Image_open_raises(uploaded_file.data) THEN Raised("cannot identify image file", 0)
         ELSE LET image == Image_open(uploaded_file.data) IN
              Returned([type |-> "image",
                        images |-> <<image>>,
                        first_image |-> image,
                        text |-> None,
                        page_count |-> 1])

(***************************************************************************)
(* Provider requests.  A Gemini request is a content list, an OpenAI       *)
(* request a list of chat messages whose content is a list of parts.  A    *)
(* part is a text, a PIL image (Gemini) or an image_url holding the        *)
(* base64 PNG encoding of an image under a declared MIME type (OpenAI).    *)
(***************************************************************************)
NoUrl == [mime |-> "", b64png |-> NoImage]

TextPart(t) == [kind |-> "text", text |-> t, image |-> NoImage, url |-> NoUrl]

ImagePart(img) == [kind |-> "image", text |-> "", image |-> img, url |-> NoUrl]

\* encode_image_to_base64(image) inside a data: URL
ImageUrlPart(mime, img) ==
    [kind |-> "image_url", text |-> "", image |-> NoImage,
     url |-> [mime |-> mime, b64png |-> img]]

GeminiRequest(model, parts) == [provider |-> "google", model |-> model, content |-> parts]

OpenAIRequest(model, parts, max_tokens) ==
    [provider |-> "openai", model |-> model,
     messages |-> <<[role |-> "user", content |-> parts]>>, max_tokens |-> max_tokens]

Parts(req) == IF req.provider = "google" THEN req.content ELSE req.messages[1].content

Insert_front(l, i, v) == <<v>> \o l

\* list.insert(i, x), i counted from 0
Insert(l, i, v) == SubSeq(l, 1, i) \o <<v>> \o SubSeq(l, i + 1, Len(l))

\* app.py, lines 68-87
app_get_gemini_response(input_prompt, file_data, user_prompt, document_type) ==
    LET meta_prompt == IF document_type = "Transporter Invoice"
                       THEN "fetch all the fields associated with transporter"
                       ELSE "fetch all the fields associated with supplier"
    IN  GeminiRequest("gemini-1.5-pro",
            <<TextPart(input_prompt \o "\n" \o meta_prompt)>>
            \o (IF file_data.type = "pdf"
                THEN <<TextPart("PDF Text Content:\n" \o file_data.text[1] \o "\n")>>
                ELSE <<>>)
            \o <<ImagePart(file_data.image), TextPart(user_prompt)>>)

\* app.py, lines 89-129
app_get_openai_response(file_data, user_prompt, document_type) ==
    LET meta_prompt == IF document_type = "Transporter Invoice"
                       THEN prompts["transporter"]
                       ELSE prompts["supplier"]
    IN  OpenAIRequest("gpt-4o",
            <<TextPart("Please analyze this document with the following context: "
                       \o meta_prompt \o "\nQuestion: " \o user_prompt)>>
            \o (IF file_data.type = "pdf"
                THEN <<TextPart("Document text content:\n" \o file_data.text[1])>>
                ELSE <<>>)
            \o <<ImageUrlPart("image/png", file_data.image)>>,
            500)

\* deploy_app.py, lines 63-69: label -> (provider, model)
deploy_models ==
    [l \in {"Gemini 1.5 Pro", "Gemini 2.0 Flash", "Gemini 2.0 Flash Lite", "GPT-4o", "GPT-4o mini"} |->
        CASE l = "Gemini 1.5 Pro" -> <<"google", "gemini-1.5-pro">>
          [] l = "Gemini 2.0 Flash" -> <<"google", "gemini-2.0-flash">>
          [] l = "Gemini 2.0 Flash Lite" -> <<"google", "gemini-2.0-flash-lite">>
          [] l = "GPT-4o" -> <<"openai", "gpt-4o">>
          [] l = "GPT-4o mini" -> <<"openai", "gpt-4o">>]

\* deploy_app.py, lines 124-127
deploy_meta_prompt(document_type, custom_prompt) ==
    IF document_type = "Document with Prompt"
    THEN Format(deploy_prompts["custom"], custom_prompt)
    ELSE Get(deploy_prompts, Replace(Lower(document_type), " ", ""), deploy_prompts["generic"])

\* deploy_app.py, lines 121-174
deploy_get_model_response(model_info, input_prompt, file_data, user_prompt, document_type, custom_prompt) ==
    LET provider == model_info[1]
        model == model_info[2]
        full_prompt == input_prompt \o "\n" \o deploy_meta_prompt(document_type, custom_prompt)
    IN  IF provider = "google"
        THEN GeminiRequest(model,
                <<TextPart(full_prompt)>>
                \o (IF file_data.type = "pdf"
                    THEN <<TextPart("PDF Text Content:\n" \o file_data.text[1] \o "\n")>>
                    ELSE <<>>)
                \o <<ImagePart(file_data.image), TextPart(user_prompt)>>)
        ELSE LET content == <<TextPart(full_prompt), ImageUrlPart("image/jpeg", file_data.image)>>
             IN  OpenAIRequest(model,
                    IF file_data.type = "pdf"
                    THEN Insert(content, 1,
                                TextPart("PDF Text Content:\n" \o file_data.text[1] \o "\n"))
                    ELSE content,
                    4096)

\* pippin_demo.py, lines 110-117 and 136-143
pippin_meta_prompt(document_type, custom_input) ==
    IF document_type = "Pippin Tax Assessment" THEN pippin_prompts["pippin_tax_assessment"]
    ELSE IF document_type = "Detailed Transcript" THEN pippin_prompts["detailed"]
    ELSE IF document_type = "Custom" THEN pippin_prompts["custom"] \o " " \o custom_input
    ELSE pippin_prompts["custom"]

\* pippin_demo.py, lines 108-130
pippin_get_gemini_response(input_prompt, file_data, user_prompt, document_type, custom_input) ==
    GeminiRequest("gemini-1.5-pro-latest",
        <<TextPart(input_prompt \o "\n" \o pippin_meta_prompt(document_type, custom_input))>>
        \o (IF file_data.type = "pdf"
            THEN <<TextPart("PDF Text Content:\n" \o file_data.text[1] \o "\n")>>
            ELSE <<>>)
        \o <<ImagePart(file_data.first_image), TextPart(user_prompt)>>)

\* pippin_demo.py, lines 132-175
pippin_get_openai_response(file_data, user_prompt, document_type, custom_input) ==
    OpenAIRequest("gpt-4-vision-preview",
        <<TextPart("Please analyze this document with the following context: "
                   \o pippin_meta_prompt(document_type, custom_input)
                   \o "\nQuestion: " \o user_prompt)>>
        \o (IF file_data.type = "pdf"
            THEN <<TextPart("Document text content:\n" \o file_data.text[1])>>
            ELSE <<>>)
        \o <<ImageUrlPart("image/png", file_data.first_image)>>,
        500)

api_gemini_request_no_text(file_data) ==
    GeminiRequest("gemini-1.5-flash",
        <<TextPart(api_gemini_prompt), ImagePart(file_data.image)>>)

\* api.py, lines 83-96
api_gemini_request(file_data) ==
    GeminiRequest("gemini-1.5-flash",
        <<TextPart(api_gemini_prompt)>>
        \o (IF file_data.type = "pdf"
            THEN <<TextPart("PDF Text Content:\n" \o file_data.text[1] \o "\n")>>
            ELSE <<>>)
        \o <<ImagePart(file_data.image)>>)

\* api.py, lines 120-155
api_openai_request(file_data) ==
    OpenAIRequest("gpt-4-vision-preview",
        <<TextPart(api_openai_prompt)>>
        \o (IF file_data.type = "pdf"
            THEN <<TextPart("Document text content:\n" \o file_data.text[1])>>
            ELSE <<>>)
        \o <<ImageUrlPart("image/png", file_data.image)>>,
        500)

(***************************************************************************)
(* State.                                                                  *)
(***************************************************************************)
Procs == {1, 2}

VARIABLES
    db,        \* invoice_data: the committed rows, in insertion order
    seq,       \* sqlite_sequence: the last id AUTOINCREMENT gave out
    runs,      \* number of runs of process_invoices started so far
    pc,        \* per process: where process_invoices stands
    files,     \* per process: invoice_files
    idx,       \* per process: i, the position in invoice_files
    analysis,  \* per process: analysis_json of the file being processed
    log,       \* per process: the lines printed and calls made by this run
    txn,       \* per connection: in_transaction
    lock,      \* per connection: the SQLite file lock it holds
    pend,      \* per connection: rows inserted and not yet committed
    program,   \* the front end that handled the last interaction
    inp,       \* the inputs of that interaction
    fdata,     \* the file_data it computed (None when it got none)
    sent,      \* the provider requests it made
    shown,     \* what it displayed or returned
    tmpfiles   \* the number of temporary files left on disk

batchVars == <<db, seq, runs, pc, files, idx, analysis, log, txn, lock, pend>>

uploadVars == <<program, inp, fdata, sent, shown, tmpfiles>>

vars == <<batchVars, uploadVars>>

Ev(k, f) == [k |-> k, f |-> f]

Count(l, k, f) == Cardinality({i \in DOMAIN l : l[i] = Ev(k, f)})

InitBatch ==
    /\ db = <<>>
    /\ seq = 0
    /\ runs = 0
    /\ pc = [p \in Procs |-> "idle"]
    /\ files = [p \in Procs |-> <<>>]
    /\ idx = [p \in Procs |-> 1]
    /\ analysis = [p \in Procs |-> ""]
    /\ log = [p \in Procs |-> <<>>]
    /\ txn = [p \in Procs |-> FALSE]
    /\ lock = [p \in Procs |-> "none"]
    /\ pend = [p \in Procs |-> <<>>]

(***************************************************************************)
(* SQLite as migration.py uses it: one connection per run, the rollback    *)
(* journal's file locks, Python's implicit BEGIN before an INSERT.  A      *)
(* statement that finds the lock it needs held by another connection       *)
(* raises OperationalError("database is locked") after the busy timeout.   *)
(***************************************************************************)
Others(p) == Procs \ {p}

\* a read needs SHARED, which a PENDING lock of another connection denies
ReadBusy(p) == lock[p] = "none" /\ \E q \in Others(p) : lock[q] = "pending"

\* a write needs RESERVED, which only one connection holds at a time
WriteBusy(p) ==
    /\ lock[p] \notin {"reserved", "pending"}
    /\ \E q \in Others(p) : lock[q] \in {"reserved", "pending"}

\* COMMIT needs EXCLUSIVE, which waits for every reader to leave
CommitBusy(p) == \E q \in Others(p) : lock[q] = "shared"

Visible_own(p) == pend[p]

\* the rows a connection sees: the committed ones and its own
Visible(p) == db \o pend[p]

SelectFileName_any(rows, name) == DOMAIN rows

\* SELECT file_name FROM invoice_data WHERE file_name = ?
SelectFileName(rows, name) == {i \in DOMAIN rows : rows[i].file_name = name}

UniqueViolation_off(rows, name) == FALSE

\* file_name TEXT NOT NULL UNIQUE
UniqueViolation(rows, name) == \E i \in DOMAIN rows : rows[i].file_name = name

NewRow_first_id(id, name, json, t) ==
    [id |-> 1, file_name |-> name, analysis_json |-> json, processed_at |-> t]

\* INSERT INTO invoice_data (file_name, analysis_json) VALUES (?, ?)
NewRow(id, name, json, t) ==
    [id |-> id, file_name |-> name, analysis_json |-> json, processed_at |-> t]

\* CURRENT_TIMESTAMP: the clock never runs backwards, so a new row is not
\* older than a row the connection can see
CurrentTimestamp(rows) == {t \in 0..MaxTime : \A i \in DOMAIN rows : rows[i].processed_at <= t}

\* the end of a connection: close(), or the exit of a crashed process
Released(f, p, v) == [f EXCEPT ![p] = v]

(***************************************************************************)
(* process_invoices, one action per step of its loop.                      *)
(***************************************************************************)
PdfPath(p) == files[p][idx[p]]

\* line 101: file_name = pdf_path.name
FileName(p) == PdfPath(p).name

\* `continue' / the end of the loop body
NextIndex_stay(i) == i

NextIndex(i) == i + 1

Advance_stop(p, i, n) == "close"

Advance(p, i, n) == IF NextIndex(i) > n THEN "close" ELSE "select"

AlreadyProcessed_never(p) == FALSE

\* line 104: cursor.fetchone() is not None
AlreadyProcessed(p) == SelectFileName(Visible(p), FileName(p)) # {}

\* init_database(), the listing and "Found n PDF files to process"
ProcessInvoicesStart(p) ==
    /\ pc[p] \in {"idle", "done", "crashed"}
    /\ runs < MaxRuns
    /\ runs' = runs + 1
    /\ log' = [log EXCEPT ![p] = <<>>]
    /\ idx' = [idx EXCEPT ![p] = 1]
    /\ analysis' = [analysis EXCEPT ![p] = ""]
    /\ IF ReadBusy(p)
       THEN /\ pc' = [pc EXCEPT ![p] = "crashed"]
            /\ files' = [files EXCEPT ![p] = <<>>]
       ELSE \E d \in Dirs : \E fs \in glob(d) :
            /\ files' = [files EXCEPT ![p] = fs]
            /\ pc' = [pc EXCEPT ![p] = IF Len(fs) = 0 THEN "close" ELSE "select"]
    /\ UNCHANGED <<db, seq, txn, lock, pend>>
    /\ UNCHANGED uploadVars

\* lines 101-108: the existence check
CheckProcessed(p) ==
    /\ pc[p] = "select"
    /\ IF ReadBusy(p)
       THEN /\ pc' = [pc EXCEPT ![p] = "crashed"]
            /\ txn' = Released(txn, p, FALSE)
            /\ lock' = Released(lock, p, "none")
            /\ pend' = Released(pend, p, <<>>)
            /\ UNCHANGED <<idx, log>>
       ELSE /\ lock' = [lock EXCEPT ![p] = IF txn[p] /\ @ = "none" THEN "shared" ELSE @]
            /\ UNCHANGED <<txn, pend>>
            /\ IF AlreadyProcessed(p)
               THEN /\ log' = [log EXCEPT ![p] = Append(@, Ev("skip", FileName(p)))]
                    /\ pc' = [pc EXCEPT ![p] = Advance(p, idx[p], Len(files[p]))]
                    /\ idx' = [idx EXCEPT ![p] = NextIndex(@)]
               ELSE /\ log' = [log EXCEPT ![p] = Append(@, Ev("processing", FileName(p)))]
                    /\ pc' = [pc EXCEPT ![p] = "analyze"]
                    /\ UNCHANGED idx
    /\ UNCHANGED <<db, seq, runs, files, analysis>>
    /\ UNCHANGED uploadVars

\* analyze_invoice on each file of the directories, for each thing the
\* model may do
Analyses ==
    [doc \in UNION {{Content(Path(d, name)) : name \in Listing(d)} : d \in Dirs \cup {"inbox"}} |->
        [reply \in BatchReplies |-> analyze_invoice(doc, reply)]]

\* line 111: analysis_json = analyze_invoice(pdf_path)
AnalyzeInvoice(p) ==
    /\ pc[p] = "analyze"
    /\ \E reply \in BatchReplies :
         LET r == Analyses[Content(PdfPath(p))][reply] IN
         /\ analysis' = [analysis EXCEPT ![p] = r.ret]
         /\ log' = [log EXCEPT ![p] =
                @ \o <<Ev("analyze", FileName(p))>>
                  \o [n \in 1..r.calls |-> Ev("api", FileName(p))]]
    /\ pc' = [pc EXCEPT ![p] = "insert"]
    /\ UNCHANGED <<db, seq, runs, files, idx, txn, lock, pend>>
    /\ UNCHANGED uploadVars

\* lines 113-123: INSERT, commit, and the report of success or failure
InsertAndCommit(p) ==
    /\ pc[p] = "insert"
    /\ pc' = [pc EXCEPT ![p] = Advance(p, idx[p], Len(files[p]))]
    /\ idx' = [idx EXCEPT ![p] = NextIndex(@)]
    /\ analysis' = [analysis EXCEPT ![p] = ""]
    /\ \E t \in CurrentTimestamp(Visible(p)) :
       LET row == NewRow(seq + Len(pend[p]) + 1, FileName(p), analysis[p], t)
           failed == Append(log[p], Ev("error", FileName(p)))
       IN  IF WriteBusy(p) \/ ReadBusy(p)
           THEN \* INSERT raises "database is locked" after the implicit BEGIN
                /\ txn' = [txn EXCEPT ![p] = TRUE]
                /\ log' = [log EXCEPT ![p] = failed]
                /\ UNCHANGED <<db, seq, lock, pend>>
           ELSE IF UniqueViolation(Visible(p), FileName(p))
           THEN \* INSERT raises IntegrityError, holding the RESERVED lock
                /\ txn' = [txn EXCEPT ![p] = TRUE]
                /\ lock' = [lock EXCEPT ![p] = IF @ = "pending" THEN @ ELSE "reserved"]
                /\ log' = [log EXCEPT ![p] = failed]
                /\ UNCHANGED <<db, seq, pend>>
           ELSE IF CommitBusy(p)
           THEN \* conn.commit() raises: the row stays in the open transaction
                /\ txn' = [txn EXCEPT ![p] = TRUE]
                /\ lock' = [lock EXCEPT ![p] = "pending"]
                /\ pend' = [pend EXCEPT ![p] = Append(@, row)]
                /\ log' = [log EXCEPT ![p] = failed]
                /\ UNCHANGED <<db, seq>>
           ELSE /\ db' = db \o Append(pend[p], row)
                /\ seq' = row.id
                /\ txn' = [txn EXCEPT ![p] = FALSE]
                /\ lock' = [lock EXCEPT ![p] = "none"]
                /\ pend' = [pend EXCEPT ![p] = <<>>]
                /\ log' = [log EXCEPT ![p] = Append(@, Ev("ok", FileName(p)))]
    /\ UNCHANGED <<runs, files>>
    /\ UNCHANGED uploadVars

\* line 125: conn.close() rolls back what was not committed
CloseConnection(p) ==
    /\ pc[p] = "close"
    /\ pc' = [pc EXCEPT ![p] = "done"]
    /\ txn' = Released(txn, p, FALSE)
    /\ lock' = Released(lock, p, "none")
    /\ pend' = Released(pend, p, <<>>)
    /\ UNCHANGED <<db, seq, runs, files, idx, analysis, log>>
    /\ UNCHANGED uploadVars

(***************************************************************************)
(* The front ends.  One interaction is one run of a Streamlit script over  *)
(* the current widget values, or one HTTP request; reply is what the       *)
(* provider does if it is called.                                          *)
(***************************************************************************)
MaxTmp == 1

UiReplies == {Reply("analysis"), Raise("quota")}

CustomTexts == {"", " ", "tax"}

NoInput ==
    [document_type |-> "", ai_service |-> "", custom |-> "", upload |-> None,
     submit |-> FALSE, has_file |-> FALSE, filename |-> "", reply |-> Reply("")]

\* the widget values a script run can see: the button exists only with an
\* upload, and the provider is called only after a submit
UiInputs(types, services, customType) ==
    {i \in [document_type : types, ai_service : services, custom : CustomTexts,
            upload : {None} \cup {Some(u) : u \in Uploads}, submit : BOOLEAN,
            has_file : {FALSE}, filename : {""}, reply : UiReplies \cup {Reply("")}] :
        /\ (i.document_type # customType => i.custom = "")
        /\ (i.upload = None => ~i.submit)
        /\ (i.submit <=> i.reply \in UiReplies)}

\* the requests that end before the model is called
ApiRejects(i) ==
    \/ ~i.has_file
    \/ i.filename = ""
    \/ api_process_uploaded_file(i.upload[1]).raised

\* the HTTP requests: with or without a 'file' part, with or without a
\* name; what the model would do matters only for those that reach it
ApiInputs ==
    {i \in [document_type : {""}, ai_service : {""}, custom : {""},
            upload : {None} \cup {Some(u) : u \in Uploads}, submit : {FALSE},
            has_file : BOOLEAN, filename : {"", "inv.pdf"}, reply : UiReplies] :
        /\ (i.has_file <=> i.upload # None)
        /\ (~i.has_file => i.filename = "")
        /\ (i.filename = "" => i.upload \in {None, Some([type |-> "application/pdf", data |-> Junk])})
        /\ (ApiRejects(i) => i.reply = Reply("analysis"))}

Outcome(fd, reqs, status, key, text, tmp) ==
    [fdata |-> fd, sent |-> reqs, shown |-> [status |-> status, key |-> key, text |-> text],
     tmp |-> tmp]

\* st.write(response) or st.error("Error during analysis: ...")
Answer(fd, req, reply) ==
    IF reply.raises
    THEN Outcome(Some(fd), <<req>>, 0, "analysis_error", reply.text, 0)
    ELSE Outcome(Some(fd), <<req>>, 0, "result", reply.text, 0)

\* app.py, lines 131-204
app_main(i) ==
    IF i.upload = None THEN Outcome(None, <<>>, 0, "idle", "", 0)
    ELSE LET r == app_process_uploaded_file(i.upload[1]) IN
         IF r.raised THEN Outcome(None, <<>>, 0, "file_error", r.err, r.tmp)
         ELSE LET file_data == r.file_data[1] IN
              IF ~i.submit THEN Outcome(Some(file_data), <<>>, 0, "preview", "", 0)
              ELSE IF i.ai_service = "Google Gemini"
                   THEN Answer(file_data,
                               app_get_gemini_response(ui_input_prompt, file_data, "",
                                                       i.document_type),
                               i.reply)
                   ELSE Answer(file_data,
                               app_get_openai_response(file_data, "", i.document_type),
                               i.reply)

\* deploy_app.py, lines 176-263
deploy_main(i) ==
    IF i.upload = None THEN Outcome(None, <<>>, 0, "idle", "", 0)
    ELSE LET r == deploy_process_uploaded_file(i.upload[1]) IN
         IF r.raised THEN Outcome(None, <<>>, 0, "file_error", r.err, r.tmp)
         ELSE LET file_data == r.file_data[1] IN
              IF ~i.submit THEN Outcome(Some(file_data), <<>>, 0, "preview", "", 0)
              ELSE IF i.document_type = "Document with Prompt" /\ Strip(i.custom) = ""
                   THEN Outcome(Some(file_data), <<>>, 0, "warning",
                                "Please enter a custom prompt before analyzing the document.", 0)
                   ELSE Answer(file_data,
                               deploy_get_model_response(deploy_models[i.ai_service],
                                   ui_input_prompt, file_data, "", i.document_type, i.custom),
                               i.reply)

\* pippin_demo.py, lines 177-261
pippin_main(i) ==
    IF i.upload = None THEN Outcome(None, <<>>, 0, "idle", "", 0)
    ELSE LET r == pippin_process_uploaded_file(i.upload[1]) IN
         IF r.raised THEN Outcome(None, <<>>, 0, "file_error", r.err, r.tmp)
         ELSE LET file_data == r.file_data[1] IN
              IF ~i.submit THEN Outcome(Some(file_data), <<>>, 0, "preview", "", 0)
              ELSE IF i.ai_service = "Gemini Pro"
                   THEN Answer(file_data,
                               pippin_get_gemini_response(ui_input_prompt, file_data, "",
                                                          i.document_type, i.custom),
                               i.reply)
                   ELSE Answer(file_data,
                               pippin_get_openai_response(file_data, "", i.document_type,
                                                          i.custom),
                               i.reply)

analyze_with_gemini_unnamed(i) ==
    IF ~i.has_file THEN Outcome(None, <<>>, 400, "error", "No file provided", 0)
    ELSE LET r == api_process_uploaded_file(i.upload[1]) IN
         IF r.raised THEN Outcome(None, <<>>, 500, "error", r.err, r.tmp)
         ELSE LET file_data == r.file_data[1]
                  content_parts == api_gemini_request(file_data)
              IN  IF i.reply.raises
                  THEN Outcome(Some(file_data), <<content_parts>>, 500, "error", i.reply.text, 0)
                  ELSE Outcome(Some(file_data), <<content_parts>>, 200, "analysis",
                               i.reply.text, 0)

\* api.py, lines 68-103
analyze_with_gemini(i) ==
    IF ~i.has_file THEN Outcome(None, <<>>, 400, "error", "No file provided", 0)
    ELSE IF i.filename = "" THEN Outcome(None, <<>>, 400, "error", "No file selected", 0)
    ELSE LET r == api_process_uploaded_file(i.upload[1]) IN
         IF r.raised THEN Outcome(None, <<>>, 500, "error", r.err, r.tmp)
         ELSE LET file_data == r.file_data[1]
                  content_parts == api_gemini_request(file_data)
              IN  IF i.reply.raises
                  THEN Outcome(Some(file_data), <<content_parts>>, 500, "error", i.reply.text, 0)
                  ELSE Outcome(Some(file_data), <<content_parts>>, 200, "analysis",
                               i.reply.text, 0)

\* api.py, lines 105-162
analyze_with_openai(i) ==
    IF ~i.has_file THEN Outcome(None, <<>>, 400, "error", "No file provided", 0)
    ELSE IF i.filename = "" THEN Outcome(None, <<>>, 400, "error", "No file selected", 0)
    ELSE LET r == api_process_uploaded_file(i.upload[1]) IN
         IF r.raised THEN Outcome(None, <<>>, 500, "error", r.err, r.tmp)
         ELSE LET file_data == r.file_data[1]
                  messages == api_openai_request(file_data)
              IN  IF i.reply.raises
                  THEN Outcome(Some(file_data), <<messages>>, 500, "error", i.reply.text, 0)
                  ELSE Outcome(Some(file_data), <<messages>>, 200, "analysis",
                               i.reply.text, 0)

InitUpload ==
    /\ program = "none"
    /\ inp = NoInput
    /\ fdata = None
    /\ sent = <<>>
    /\ shown = [status |-> 0, key |-> "idle", text |-> ""]
    /\ tmpfiles = 0

\* the effect of handling one interaction
Interact(name, i, out) ==
    /\ tmpfiles + out.tmp <= MaxTmp
    /\ program' = name
    /\ inp' = i
    /\ fdata' = out.fdata
    /\ sent' = out.sent
    /\ shown' = out.shown
    /\ tmpfiles' = tmpfiles + out.tmp
    /\ UNCHANGED batchVars

AppRun ==
    /\ program = "none"
    /\ \E i \in UiInputs({"Transporter Invoice", "Supplier Bill"},
                      {"Gemini Pro", "OpenAI GPT-4o"}, "") :
        Interact("app", i, app_main(i))

DeployRun ==
    /\ program = "none"
    /\ \E i \in UiInputs({"Generic Document", "Supplier Bill", "Transporter Invoice",
                       "Document with Prompt"},
                      DOMAIN deploy_models, "Document with Prompt") :
        Interact("deploy", i, deploy_main(i))

PippinRun ==
    /\ program = "none"
    /\ \E i \in UiInputs({"Custom", "Pippin Tax Assessment", "Detailed Transcript"},
                      {"Gemini Pro", "OpenAI GPT-4V"}, "Custom") :
        Interact("pippin", i, pippin_main(i))

ApiGemini ==
    /\ program = "none"
    /\ \E i \in ApiInputs : Interact("api_gemini", i, analyze_with_gemini(i))

ApiOpenAI ==
    /\ program = "none"
    /\ \E i \in ApiInputs : Interact("api_openai", i, analyze_with_openai(i))

\* the script run or the request is over; only the files on disk remain
EndInteraction ==
    /\ program # "none"
    /\ program' = "none"
    /\ inp' = NoInput
    /\ fdata' = None
    /\ sent' = <<>>
    /\ shown' = [status |-> 0, key |-> "idle", text |-> ""]
    /\ UNCHANGED tmpfiles
    /\ UNCHANGED batchVars

(***************************************************************************)
(* table_view.py: the viewer.  One interaction is one run of the script    *)
(* over the search box, the sort box, the invoice picked in the select     *)
(* box and the export button pressed.                                      *)
(***************************************************************************)
max_pages == 3

\* the characters of the model's strings in code point order
CodeOrder == " \"$',.0123456789:ABCDEFGHIJKLMNOPQRSTUVWXYZ[\\]_abcdefghijklmnopqrstuvwxyz{}"

CharRank(c) ==
    IF \E i \in 1..Len(CodeOrder) : Char(CodeOrder, i) = c
    THEN CHOOSE i \in 1..Len(CodeOrder) : Char(CodeOrder, i) = c
    ELSE 0

\* a < b on str
RECURSIVE StrLess(_, _)
StrLess(a, b) ==
    IF Len(b) = 0 THEN FALSE
    ELSE IF Len(a) = 0 THEN TRUE
    ELSE IF Char(a, 1) = Char(b, 1)
         THEN StrLess(SubSeq(a, 2, Len(a)), SubSeq(b, 2, Len(b)))
         ELSE CharRank(Char(a, 1)) < CharRank(Char(b, 1))

UpperChar(c) ==
    IF \E i \in 1..26 : Char(LowerCase, i) = c
    THEN Char(UpperCase, CHOOSE i \in 1..26 : Char(LowerCase, i) = c)
    ELSE c

IsAlpha(c) == \E i \in 1..26 : Char(LowerCase, i) = c \/ Char(UpperCase, i) = c

\* s.title(): a letter after a non-letter is raised, every other lowered
RECURSIVE TitleFrom(_, _, _)
TitleFrom(s, i, first) ==
    IF i > Len(s) THEN ""
    ELSE LET c == Char(s, i) IN
         (IF first THEN UpperChar(c) ELSE LowerChar(c)) \o TitleFrom(s, i + 1, ~IsAlpha(c))

Title(s) == TitleFrom(s, 1, TRUE)

HasKey(v, k) == v.t = "dict" /\ \E j \in DOMAIN v.keys : v.keys[j] = k

\* d[k] of a parsed dict that has the key
ValueOf(v, k) == v.items[CHOOSE j \in DOMAIN v.keys : v.keys[j] = k]

RECURSIVE DumpIndent(_, _), IndentItems(_, _, _), IndentPairs(_, _, _, _)
\* json.dumps(v, indent=2); ind is the indentation of the enclosing line
DumpIndent(v, ind) ==
    CASE v.t = "int" -> v.s
      [] v.t = "lit" -> v.s
      [] v.t = "str" -> Quote(v.s)
      [] v.t = "list" ->
            IF v.items = <<>> THEN "[]"
            ELSE "[\n" \o IndentItems(v.items, 1, ind \o "  ") \o "\n" \o ind \o "]"
      [] v.t = "dict" ->
            IF v.keys = <<>> THEN "{}"
            ELSE "{\n" \o IndentPairs(v.keys, v.items, 1, ind \o "  ") \o "\n" \o ind \o "}"

IndentItems(vs, i, ind) ==
    IF i > Len(vs) THEN ""
    ELSE ind \o DumpIndent(vs[i], ind) \o (IF i < Len(vs) THEN ",\n" ELSE "")
         \o IndentItems(vs, i + 1, ind)

IndentPairs(ks, vs, i, ind) ==
    IF i > Len(ks) THEN ""
    ELSE ind \o Quote(ks[i]) \o ": " \o DumpIndent(vs[i], ind)
         \o (IF i < Len(ks) THEN ",\n" ELSE "") \o IndentPairs(ks, vs, i + 1, ind)

\* table_view.py, lines 33-39
format_json_view(json_str) ==
    LET r == json_loads(json_str) IN IF r.ok THEN DumpIndent(r.val, "") ELSE json_str

RECURSIVE Repr(_), ReprItems(_, _), ReprPairs(_, _, _)
\* repr(v) of a parsed value (a str without quotes of its own inside)
Repr(v) ==
    CASE v.t = "int" -> v.s
      [] v.t = "lit" -> (IF v.s = "null" THEN "None" ELSE IF v.s = "true" THEN "True" ELSE "False")
      [] v.t = "str" -> "'" \o v.s \o "'"
      [] v.t = "list" -> "[" \o ReprItems(v.items, 1) \o "]"
      [] v.t = "dict" -> "{" \o ReprPairs(v.keys, v.items, 1) \o "}"

ReprItems(vs, i) ==
    IF i > Len(vs) THEN ""
    ELSE Repr(vs[i]) \o (IF i < Len(vs) THEN ", " ELSE "") \o ReprItems(vs, i + 1)

ReprPairs(ks, vs, i) ==
    IF i > Len(ks) THEN ""
    ELSE "'" \o ks[i] \o "': " \o Repr(vs[i]) \o (IF i < Len(ks) THEN ", " ELSE "")
         \o ReprPairs(ks, vs, i + 1)

\* str(v)
Str(v) == IF v.t = "str" THEN v.s ELSE Repr(v)

RECURSIVE JoinLines(_, _)
\* '\n'.join(lines)
JoinLines(lines, i) ==
    IF i > Len(lines) THEN ""
    ELSE lines[i] \o (IF i < Len(lines) THEN "\n" ELSE "") \o JoinLines(lines, i + 1)

\* lines 74-79: the value column of the key-value table
FormattedValue(value) ==
    CASE value.t = "dict" ->
            JoinLines([j \in DOMAIN value.keys |-> value.keys[j] \o ": " \o Str(value.items[j])], 1)
      [] value.t = "list" -> JoinLines([j \in DOMAIN value.items |-> Str(value.items[j])], 1)
      [] OTHER -> Str(value)

\* table_view.py, lines 58-85: the rows of the table, or None
create_key_value_table(json_str) ==
    LET r == json_loads(json_str) IN
    IF ~r.ok THEN None
    ELSE IF HasKey(r.val, "raw_analysis") THEN None
    ELSE IF r.val.t # "dict" THEN None
    ELSE Some([j \in DOMAIN r.val.keys |->
                 <<Title(Replace(r.val.keys[j], "_", " ")), FormattedValue(r.val.items[j])>>])

\* csv.QUOTE_MINIMAL
CsvField(x) ==
    IF \E c \in {",", "\"", "\n", "\r"} : Contains(x, c)
    THEN "\"" \o Replace(x, "\"", "\"\"") \o "\""
    ELSE x

RECURSIVE CsvLine(_, _)
CsvLine(fields, i) ==
    IF i > Len(fields) THEN "\n"
    ELSE CsvField(fields[i]) \o (IF i < Len(fields) THEN "," ELSE "") \o CsvLine(fields, i + 1)

\* lines 234-235: pd.DataFrame([analysis_dict]).to_csv(index=False)
to_csv(analysis_dict) ==
    CsvLine(analysis_dict.keys, 1)
    \o CsvLine([j \in DOMAIN analysis_dict.items |-> Str(analysis_dict.items[j])], 1)

\* lines 138-142: the "Unique Vendors" metric raises on an analysis that is
\* a number or a literal, and on vendor_details that are not a dict
MetricRaises(json_str) ==
    LET v == json_loads(json_str).val IN
    CASE v.t \in {"int", "lit"} -> TRUE
      [] v.t = "str" -> Contains(v.s, "vendor_details")
      [] v.t = "list" -> \E j \in DOMAIN v.items : v.items[j] = JStr("vendor_details")
      [] v.t = "dict" -> HasKey(v, "vendor_details") /\ ValueOf(v, "vendor_details").t # "dict"
      [] OTHER -> TRUE

IsNumber(x) == Len(x) > 0 /\ \A j \in 1..Len(x) : Char(x, j) \in Digits \cup {"0"}

RECURSIVE Number(_)
\* float(x) of a string of digits
Number(x) ==
    IF Len(x) = 0 THEN 0
    ELSE 10 * Number(SubSeq(x, 1, Len(x) - 1))
         + (CHOOSE d \in 0..9 : Char("0123456789", d + 1) = Char(x, Len(x)))

\* lines 167-171: total_amount without '$' and ','
AmountText(json_str) ==
    LET v == json_loads(json_str).val IN
    IF HasKey(v, "total_amount")
    THEN IF ValueOf(v, "total_amount").t = "str"
         THEN Some(Replace(Replace(ValueOf(v, "total_amount").s, "$", ""), ",", ""))
         ELSE None
    ELSE Some("0")

AmountRaises(json_str) ==
    \/ json_loads(json_str).val.t # "dict"
    \/ AmountText(json_str) # None /\ ~IsNumber(Strip(AmountText(json_str)[1]))

Amount(json_str) ==
    IF AmountText(json_str) = None THEN 0 ELSE Number(Strip(AmountText(json_str)[1]))

SortOptions == {"Most Recent", "Filename", "Invoice Amount"}

\* the row a sort puts first of two (neither, when their keys are equal)
Before(r1, r2, sort_option) ==
    CASE sort_option = "Most Recent" -> r1.processed_at > r2.processed_at
      [] sort_option = "Filename" -> StrLess(r1.file_name, r2.file_name)
      [] sort_option = "Invoice Amount" -> Amount(r1.analysis_json) > Amount(r2.analysis_json)

\* the orders a sort may give: rows with equal keys come in any order
Sorted(rows, sort_option) ==
    {f \in Perms(Range(rows)) :
        \A i, j \in DOMAIN f : i < j => ~Before(f[j], f[i], sort_option)}

load_invoice_data_drop(rows) == [frames |-> Sorted(rows, "Most Recent"), store |-> <<>>]

\* table_view.py, lines 13-31: the frames the SELECT ... ORDER BY
\* processed_at DESC may give, and the table as connect, read and close
\* leave it
load_invoice_data(rows) == [frames |-> Sorted(rows, "Most Recent"), store |-> rows]

\* "[" is not a regular expression: str.contains raises on it
SearchTerms == {"", "A", "zip", "["}

SearchRaises(search_term) == search_term = "["

\* line 158: df[df['file_name'].str.contains(search_term, case=False)]
Filter(df, search_term) ==
    IF search_term = "" THEN df
    ELSE SelectSeq(df, LAMBDA r : Contains(Lower(r.file_name), Lower(search_term)))

Exports == {"none", "json", "csv"}

ViewInputs == [search_term : SearchTerms, sort_option : SortOptions, pick : 1..2, export : Exports]

View(key, text, selected, download) ==
    [status |-> 0, key |-> key, text |-> text, selected |-> selected, download |-> download,
     preview |-> None]

\* table_view.py, lines 41-56 and 208-217: the pages shown in the Preview tab
get_pdf_preview(file_path) ==
    IF fitz_open_raises(Content(file_path)) THEN None
    ELSE Some([n \in 1..(IF Len(Content(file_path).pages) < max_pages
                         THEN Len(Content(file_path).pages) ELSE max_pages) |->
                 convert_pdf_page_to_image(Content(file_path).pages[n])])

\* lines 195-204 and 223-238: what is shown for the selected row
Selected(sel, export) ==
    LET table_data == create_key_value_table(sel.analysis_json)
        analysis_dict == json_loads(sel.analysis_json).val
        shownAs == IF table_data # None /\ table_data[1] # <<>> THEN "table" ELSE "json"
    IN  [View(shownAs,
              format_json_view(sel.analysis_json),
              sel.file_name,
              IF export = "json" THEN Some(format_json_view(sel.analysis_json))
              ELSE IF export = "csv" /\ analysis_dict.t = "dict" THEN Some(to_csv(analysis_dict))
              ELSE None)
         EXCEPT !.preview = IF sel.file_name \in Listing("invoices")
                            THEN get_pdf_preview(Path("invoices", sel.file_name))
                            ELSE None]

\* table_view.py, lines 87-241: the outcomes of one run of main over the
\* frame that load_invoice_data returned
view_main(i, df) ==
    IF Len(df) = 0
    THEN {View("warning", "No invoice data found in the database.", "", None)}
    ELSE IF \E n \in DOMAIN df : MetricRaises(df[n].analysis_json)
    THEN {View("error", "Error loading data", "", None)}
    ELSE IF i.search_term # "" /\ SearchRaises(i.search_term)
    THEN {View("error", "Error loading data", "", None)}
    ELSE LET found == Filter(df, i.search_term) IN
         IF i.sort_option = "Invoice Amount"
            /\ \E n \in DOMAIN found : AmountRaises(found[n].analysis_json)
         THEN {View("error", "Error loading data", "", None)}
         ELSE IF Len(found) = 0
         THEN {View("error", "Error loading data", "", None)}
         ELSE {Selected(f[i.pick], i.export) :
                  f \in {g \in Sorted(found, i.sort_option) : i.pick <= Len(g)}}

\* one run of the viewer's script
ViewRun ==
    /\ program = "none"
    /\ \E i \in ViewInputs :
         /\ program' = "table_view"
         /\ inp' = i
         /\ fdata' = None
         /\ sent' = <<>>
         /\ IF runs = 0
            THEN \* line 119: invoices.db does not exist before the first run
                 /\ shown' = View("error", "Database file 'invoices.db' not found!", "", None)
                 /\ db' = db
            ELSE IF \E q \in Procs : lock[q] = "pending"
            THEN \* the SELECT finds the database locked
                 /\ shown' = View("error", "Error loading data", "", None)
                 /\ db' = db
            ELSE LET r == load_invoice_data(db) IN
                 /\ db' = r.store
                 /\ \E df \in r.frames : shown' \in view_main(i, df)
    /\ UNCHANGED <<seq, runs, pc, files, idx, analysis, log, txn, lock, pend, tmpfiles>>

Init == InitBatch /\ InitUpload

NextBatch ==
    \/ \E p \in Procs : ProcessInvoicesStart(p)
    \/ \E p \in Procs : CheckProcessed(p)
    \/ \E p \in Procs : AnalyzeInvoice(p)
    \/ \E p \in Procs : InsertAndCommit(p)
    \/ \E p \in Procs : CloseConnection(p)

Next == NextBatch

Spec == Init /\ [][Next]_vars

NextUpload == AppRun \/ DeployRun \/ PippinRun \/ ApiGemini \/ ApiOpenAI \/ EndInteraction

SpecUpload == Init /\ [][NextUpload]_vars

\* one run of the batch at a time, next to the HTTP service
NextServices ==
    \/ ProcessInvoicesStart(1)
    \/ CheckProcessed(1)
    \/ AnalyzeInvoice(1)
    \/ InsertAndCommit(1)
    \/ CloseConnection(1)
    \/ ApiGemini
    \/ ApiOpenAI
    \/ EndInteraction

SpecServices == Init /\ [][NextServices]_vars

\* the batch as it is meant to be used: one run of process_invoices at a
\* time, and a run that has started goes on until it ends
LoopStep ==
    \/ CheckProcessed(1)
    \/ AnalyzeInvoice(1)
    \/ InsertAndCommit(1)
    \/ CloseConnection(1)

NextSequential == ProcessInvoicesStart(1) \/ LoopStep

SpecSequential == Init /\ [][NextSequential]_vars /\ WF_vars(LoopStep)

\* two runs of process_invoices started together over one directory of
\* three invoices and one empty table: both have connected and listed the
\* directory, and neither has looked at a file yet
InitConcurrent ==
    /\ InitUpload
    /\ db = <<>>
    /\ seq = 0
    /\ runs = 2
    /\ pc = [p \in Procs |-> "select"]
    /\ \E fs \in glob("inbox") : files = [p \in Procs |-> fs]
    /\ idx = [p \in Procs |-> 1]
    /\ analysis = [p \in Procs |-> ""]
    /\ log = [p \in Procs |-> <<>>]
    /\ txn = [p \in Procs |-> FALSE]
    /\ lock = [p \in Procs |-> "none"]
    /\ pend = [p \in Procs |-> <<>>]

NextConcurrent ==
    \/ \E p \in Procs : CheckProcessed(p)
    \/ \E p \in Procs : AnalyzeInvoice(p)
    \/ \E p \in Procs : InsertAndCommit(p)
    \/ \E p \in Procs : CloseConnection(p)

SpecConcurrent == InitConcurrent /\ [][NextConcurrent]_vars

\* the viewer on its own, over every table that runs of process_invoices
\* can have left behind
PdfNames == {name \in FileNames : Matches(name)}

StoredAnalyses(name) ==
    {analyze_invoice(Content(Path(d, name)), reply).ret :
        d \in {e \in Dirs : name \in Listing(e)}, reply \in BatchReplies}

StoredRows ==
    UNION {{NewRow(id, name, json, t) :
               id \in 1..Cardinality(PdfNames), json \in StoredAnalyses(name), t \in 0..MaxTime} :
           name \in PdfNames}

Stores ==
    {s \in UNION {[1..n -> StoredRows] : n \in 0..Cardinality(PdfNames)} :
        \A i \in DOMAIN s :
            /\ s[i].id = i
            /\ \A j \in DOMAIN s :
                  i < j => s[i].file_name # s[j].file_name
                           /\ s[i].processed_at <= s[j].processed_at}

InitViewer ==
    /\ db \in Stores
    /\ seq = Len(db)
    /\ runs \in {r \in 0..1 : db # <<>> => r = 1}
    /\ pc = [p \in Procs |-> IF runs = 0 THEN "idle" ELSE "done"]
    /\ files = [p \in Procs |-> <<>>]
    /\ idx = [p \in Procs |-> 1]
    /\ analysis = [p \in Procs |-> ""]
    /\ log = [p \in Procs |-> <<>>]
    /\ txn = [p \in Procs |-> FALSE]
    /\ lock = [p \in Procs |-> "none"]
    /\ pend = [p \in Procs |-> <<>>]
    /\ InitUpload

NextViewer == ViewRun \/ EndInteraction

SpecViewer == InitViewer /\ [][NextViewer]_vars

(***************************************************************************)
(* analyze_invoice on its own: one call on a file and a model behaviour    *)
(* drawn from every text over JsonAlphabet of at most MaxTextLen           *)
(* characters.                                                             *)
(***************************************************************************)
RECURSIVE Texts(_)
Texts(n) ==
    IF n = 0 THEN {""}
    ELSE LET T == Texts(n - 1) IN T \cup {t \o c : t \in T, c \in JsonAlphabet}

OnePage == Pdf(<<[text |-> "A", pix |-> 1]>>)

AnalyzeInputs ==
    {[doc |-> OnePage, reply |-> Reply(t)] : t \in Texts(MaxTextLen)}
    \cup {[doc |-> d, reply |-> r] : d \in {OnePage, Pdf(<<>>), Junk, Png(3)}, r \in UiReplies}

AnalyzeInput(a) ==
    [NoInput EXCEPT !.upload = Some([type |-> "application/pdf", data |-> a.doc]),
                    !.filename = "a.pdf", !.reply = a.reply]

InitAnalyze ==
    /\ InitBatch
    /\ program = "none"
    /\ inp \in {AnalyzeInput(a) : a \in AnalyzeInputs}
    /\ fdata = None
    /\ sent = <<>>
    /\ shown = [status |-> 0, key |-> "idle", text |-> ""]
    /\ tmpfiles = 0

\* analysis_json = analyze_invoice(pdf_path)
AnalyzeCall ==
    /\ program = "none"
    /\ program' = "migration"
    /\ shown' = [status |-> 0, key |-> "returned",
                 text |-> analyze_invoice(inp.upload[1].data, inp.reply).ret]
    /\ UNCHANGED <<inp, fdata, sent, tmpfiles>>
    /\ UNCHANGED batchVars

NextAnalyze == AnalyzeCall

SpecAnalyze == InitAnalyze /\ [][NextAnalyze]_vars

(***************************************************************************)
(* Properties.                                                             *)
(***************************************************************************)
Stored(name) == \E i \in DOMAIN db : db[i].file_name = name

LastEvent(l) == l[Len(l)]

\* C1: in every reachable state, whatever runs of process_invoices over
\* whatever directories came before, invoice_data holds at most one row
\* per file_name.
C1_FileNameUnique ==
    \A i, j \in DOMAIN db : db[i].file_name = db[j].file_name => i = j

\* a run whose INSERT was refused because another run had stored the file
C1_Witness ==
    \E p \in Procs :
        /\ log[p] # <<>>
        /\ LastEvent(log[p]).k = "error"
        /\ Stored(LastEvent(log[p]).f)
        /\ lock[p] = "reserved"
        /\ pend[p] = <<>>
        /\ Len(db) >= 2

\* C2: no step changes or removes a stored row; a run that comes to a file
\* whose row is stored skips it without calling analyze_invoice, and a run
\* never analyses a file it skipped.
C2_RowsKept == \A i \in DOMAIN db : i \in DOMAIN db' /\ db'[i] = db[i]

C2_SkipsStored(p) ==
    /\ (pc[p] = "select" /\ Stored(FileName(p)) /\ log'[p] # log[p])
          => /\ log'[p] = Append(log[p], Ev("skip", FileName(p)))
             /\ pc'[p] # "analyze"
    /\ \A f \in FileNames :
          Count(log'[p], "skip", f) > 0
             => Count(log'[p], "analyze", f) = 0 /\ Count(log'[p], "api", f) = 0

C2_InsertOnce == [][C2_RowsKept /\ \A p \in Procs : C2_SkipsStored(p)]_vars

\* a finished run that skipped a stored file
C2_Witness ==
    \E p \in Procs : \E f \in FileNames :
        /\ pc[p] = "done"
        /\ Count(log[p], "skip", f) = 1
        /\ Stored(f)

FrontEnds == {"app", "deploy", "pippin", "api_gemini", "api_openai"}

\* the upload of the interaction at hand
Upload == inp.upload[1]

\* C3: whenever deploy_app has sent a request, its instruction prompt is
\* the input prompt followed by the template of the selected document
\* type: prompts['supplier'] for 'Supplier Bill', prompts['transporter']
\* for 'Transporter Invoice', prompts['generic'] for 'Generic Document',
\* prompts['custom'] filled with the user's text for 'Document with Prompt'.
C3_Template(document_type, custom) ==
    CASE document_type = "Supplier Bill" -> deploy_prompts["supplier"]
      [] document_type = "Transporter Invoice" -> deploy_prompts["transporter"]
      [] document_type = "Generic Document" -> deploy_prompts["generic"]
      [] document_type = "Document with Prompt" -> Format(deploy_prompts["custom"], custom)

C3_TypeSpecificPrompt ==
    (program = "deploy" /\ sent # <<>>) =>
        \E k \in DOMAIN Parts(sent[1]) :
            Parts(sent[1])[k] =
                TextPart(ui_input_prompt \o "\n" \o C3_Template(inp.document_type, inp.custom))

\* C4: whenever app.py has sent a request, the provider it went to is the
\* one selected: Gemini for 'Gemini Pro', OpenAI for 'OpenAI GPT-4o'.
C4_ProviderSelected ==
    (program = "app" /\ sent # <<>>) =>
        sent[1].provider = (IF inp.ai_service = "Gemini Pro" THEN "google" ELSE "openai")

\* C5: every request a front end has sent for a PDF upload holds a
\* document-text part with the text extracted from the upload and an image
\* part with the rendering of its first page; every request sent for an
\* image upload holds the image and no document-text part.
DocTextPart(part) ==
    /\ part.kind = "text"
    /\ \/ StartsWith(part.text, 1, "PDF Text Content:\n")
       \/ StartsWith(part.text, 1, "Document text content:\n")

CarriesImage(part, img) ==
    \/ part.kind = "image" /\ part.image = img
    \/ part.kind = "image_url" /\ part.url.b64png = img

C5_Request(req) ==
    LET ps == Parts(req) IN
    IF Upload.type = "application/pdf"
    THEN /\ \E k \in DOMAIN ps :
                /\ DocTextPart(ps[k])
                /\ Contains(ps[k].text, TextFrom(Upload.data.pages, 1))
         /\ \E k \in DOMAIN ps :
                CarriesImage(ps[k], convert_pdf_page_to_image(Upload.data.pages[1]))
    ELSE /\ \E k \in DOMAIN ps : CarriesImage(ps[k], Image_open(Upload.data))
         /\ \A k \in DOMAIN ps : ~DocTextPart(ps[k])

C5_TextAndImage ==
    program \in FrontEnds => \A n \in DOMAIN sent : C5_Request(sent[n])

\* deploy_app has sent an OpenAI request for a PDF of two pages
C5_Witness ==
    /\ program = "deploy"
    /\ sent # <<>>
    /\ sent[1].provider = "openai"
    /\ Upload.type = "application/pdf"
    /\ Len(Upload.data.pages) = 2

\* C6: whenever process_uploaded_file has returned, the type is 'pdf'
\* exactly when the declared content type is 'application/pdf'; then text
\* is the pages' texts joined in page order and the image is the rendering
\* of the first page; otherwise the type is 'image', text is None and
\* page_count, where the dict has it, is 1.
RECURSIVE C6_PageTexts(_)
C6_PageTexts(ps) == IF ps = <<>> THEN "" ELSE ps[1].text \o C6_PageTexts(Tail(ps))

C6_Image(fd) == IF "image" \in DOMAIN fd THEN fd.image ELSE fd.first_image

C6_FormatDetection ==
    (program \in FrontEnds /\ fdata # None) =>
        LET fd == fdata[1] IN
        /\ (fd.type = "pdf") <=> (Upload.type = "application/pdf")
        /\ IF fd.type = "pdf"
           THEN /\ fd.text = Some(C6_PageTexts(Upload.data.pages))
                /\ C6_Image(fd) = [src |-> "page", dpi |-> 300, pix |-> Upload.data.pages[1].pix]
           ELSE /\ fd.type = "image"
                /\ fd.text = None
                /\ C6_Image(fd) = [src |-> "upload", dpi |-> 0, pix |-> Upload.data.pix]
                /\ ("page_count" \in DOMAIN fd => fd.page_count = 1)

\* a PDF of two different pages went through process_uploaded_file
C6_Witness ==
    /\ program \in FrontEnds
    /\ fdata # None
    /\ fdata[1].type = "pdf"
    /\ Len(Upload.data.pages) = 2
    /\ Upload.data.pages[1] # Upload.data.pages[2]

\* C7: whatever the file and whatever the model does, what analyze_invoice
\* returns parses as JSON; it is the dump of the parsed reply when the
\* reply parses, the object {"raw_analysis": reply} when it does not, and
\* an object {"error": message} when opening, rendering or the model call
\* raised.
C7_ParseOrFallback ==
    program = "migration" =>
        LET doc == Upload.data
            reply == inp.reply
            out == json_loads(shown.text)
            resp == json_loads(reply.text)
        IN  /\ out.ok
            /\ IF fitz_open_raises(doc) \/ Len(doc.pages) = 0
               THEN /\ out.val.t = "dict"
                    /\ out.val.keys = <<"error">>
                    /\ out.val.items[1].t = "str"
               ELSE IF reply.raises
               THEN out.val = JDict(<<"error">>, <<JStr(reply.text)>>)
               ELSE IF resp.ok
               THEN out.val = resp.val /\ shown.text = json_dumps(resp.val)
               ELSE out.val = JDict(<<"raw_analysis">>, <<JStr(reply.text)>>)

\* the model answered with a broken list, and the fallback object came back
C7_Witness ==
    /\ program = "migration"
    /\ Upload.data = OnePage
    /\ inp.reply = Reply("[1\"")
    /\ shown.text = "{\"raw_analysis\": \"[1\\\"\"}"

\* C8: in a run of process_invoices no file is analysed twice, no analysis
\* makes more than one model call, and at the end of the run every file
\* that was not skipped was analysed exactly once; an HTTP request makes
\* at most one model call, and exactly one whenever its file was processed.
C8_NoRetry ==
    /\ \A p \in Procs : \A f \in FileNames :
          /\ Count(log[p], "analyze", f) <= 1
          /\ Count(log[p], "api", f) <= Count(log[p], "analyze", f)
          /\ (pc[p] = "done" /\ \E i \in DOMAIN files[p] : files[p][i].name = f)
                => Count(log[p], "analyze", f) + Count(log[p], "skip", f) = 1
    /\ program \in {"api_gemini", "api_openai"} =>
          /\ Len(sent) <= 1
          /\ (fdata # None => Len(sent) = 1)

\* a finished run that analysed two files, the model failing or not, next
\* to an HTTP request that reached the model
C8_Witness ==
    /\ pc[1] = "done"
    /\ \A f \in {"a.pdf", "b.pdf"} :
          Count(log[1], "analyze", f) = 1 /\ Count(log[1], "api", f) = 1
    /\ program = "api_openai"
    /\ Len(sent) = 1
    /\ inp.reply.raises

\* C9: a run comes to its files in list order, and at any moment at most
\* one of them is between the start of its processing and the report of
\* its commit or of its failure.
IsHead(e) == e.k \in {"skip", "processing"}

C9_InFlight(p) ==
    {f \in FileNames :
        Count(log[p], "processing", f) > Count(log[p], "ok", f) + Count(log[p], "error", f)}

C9_Sequential ==
    \A p \in Procs :
        LET heads == SelectSeq(log[p], IsHead) IN
        /\ Len(heads) <= Len(files[p])
        /\ \A i \in DOMAIN heads : heads[i].f = files[p][i].name
        /\ Cardinality(C9_InFlight(p)) <= 1
        /\ pc[p] \in {"analyze", "insert"} <=> C9_InFlight(p) # {}

\* a run is analysing its second file after it committed the first
C9_Witness ==
    \E p \in Procs :
        /\ pc[p] = "insert"
        /\ idx[p] = 2
        /\ Count(log[p], "ok", files[p][1].name) = 1
        /\ C9_InFlight(p) = {files[p][2].name}

\* C10: in app.py and in pippin_demo.py the Gemini request and the OpenAI
\* request for the same document type and the same custom input carry the
\* same template text.
C10_Cut(text, prefix, suffix) == SubSeq(text, Len(prefix) + 1, Len(text) - Len(suffix))

C10_Template(req) ==
    IF req.provider = "google"
    THEN C10_Cut(Parts(req)[1].text, ui_input_prompt \o "\n", "")
    ELSE C10_Cut(Parts(req)[1].text,
                 "Please analyze this document with the following context: ", "\nQuestion: ")

C10_SameTemplate ==
    (program \in {"app", "pippin"} /\ sent # <<>>) =>
        LET fd == fdata[1] IN
        IF program = "app"
        THEN C10_Template(app_get_gemini_response(ui_input_prompt, fd, "", inp.document_type))
             = C10_Template(app_get_openai_response(fd, "", inp.document_type))
        ELSE C10_Template(pippin_get_gemini_response(ui_input_prompt, fd, "",
                                                     inp.document_type, inp.custom))
             = C10_Template(pippin_get_openai_response(fd, "", inp.document_type, inp.custom))

\* C11: in every reachable state the rows of invoice_data have distinct
\* ids, a file_name and an analysis_json that are not null, the
\* analysis_json parses as JSON, and a row inserted later has a greater id.
C11_RecordShape ==
    \A i \in DOMAIN db :
        /\ db[i].id \in Nat \ {0}
        /\ db[i].file_name \in FileNames
        /\ json_loads(db[i].analysis_json).ok
        /\ \A j \in DOMAIN db : i < j => db[i].id < db[j].id

\* two rows are stored, one of a reply that is not JSON and one of a failed
\* model call
C11_Witness ==
    /\ Len(db) = 2
    /\ \E i, j \in DOMAIN db :
          /\ json_loads(db[i].analysis_json).val.keys = <<"raw_analysis">>
          /\ json_loads(db[j].analysis_json).val.keys = <<"error">>

\* C12: no step of the viewer, whatever is searched, sorted, selected or
\* exported, changes invoice_data: after the step the table holds the same
\* rows with the same fields, and the AUTOINCREMENT counter is the same.
C12_StoreUnchanged == [][db' = db /\ seq' = seq]_vars

\* the viewer exported a row of a table of two rows as CSV
C12_Witness ==
    /\ program = "table_view"
    /\ Len(db) = 2
    /\ inp.export = "csv"
    /\ shown.download # None

\* every table the batch can leave behind is one the viewer is run on
StoresCoverBatch == db \in Stores

\* C13: a step of a run that reports the failure of a file leaves every
\* committed row as it was and takes the run to its next file (or, after
\* the last file, to the end of the loop); no run stops in the middle of
\* its list, and a run that is over has examined every file of its list
\* and analysed and tried to insert each one it did not skip.
C13_Examined(p, f) ==
    /\ Count(log[p], "skip", f) + Count(log[p], "processing", f) = 1
    /\ Count(log[p], "processing", f) = Count(log[p], "analyze", f)
    /\ Count(log[p], "analyze", f) = Count(log[p], "ok", f) + Count(log[p], "error", f)

C13_RunCompletes(p) ==
    /\ pc[p] = "crashed" => log[p] = <<>>
    /\ pc[p] = "done" => \A i \in DOMAIN files[p] : C13_Examined(p, files[p][i].name)

C13_FailureStep(p) ==
    (pc[p] = "insert" /\ log'[p] = Append(log[p], Ev("error", FileName(p)))) =>
        /\ db' = db
        /\ idx'[p] = idx[p] + 1
        /\ pc'[p] = (IF idx[p] < Len(files[p]) THEN "select" ELSE "close")

C13_FailureIsolated ==
    /\ [](\A p \in Procs : C13_RunCompletes(p))
    /\ [][\A p \in Procs : C13_FailureStep(p)]_vars

\* a run is over whose first file was refused by the unique constraint and
\* whose second file was stored after that
C13_Witness ==
    \E p \in Procs :
        /\ pc[p] = "done"
        /\ Len(files[p]) = 2
        /\ Count(log[p], "error", files[p][1].name) = 1
        /\ Count(log[p], "ok", files[p][2].name) = 1
        /\ Stored(files[p][1].name)

\* C14: a run of process_invoices that has started comes to its end with
\* its connection closed, and when it has ended every file of its list has
\* exactly one row in invoice_data unless the insertion of that file was
\* reported as failed, whatever the model did for each file.
Running == {"select", "analyze", "insert", "close"}

RowsOf(f) == {i \in DOMAIN db : db[i].file_name = f}

C14_AtEnd(p) ==
    pc[p] = "done" =>
        /\ ~txn[p] /\ lock[p] = "none" /\ pend[p] = <<>>
        /\ \A i \in DOMAIN files[p] :
              \/ Cardinality(RowsOf(files[p][i].name)) = 1
              \/ Count(log[p], "error", files[p][i].name) > 0

C14_BatchCompletes ==
    /\ \A p \in Procs : (pc[p] \in Running) ~> (pc[p] = "done")
    /\ [](\A p \in Procs : pc[p] # "crashed" /\ C14_AtEnd(p))

\* a run has ended that stored two files, one whose model call failed and
\* one whose reply was not JSON
C14_Witness ==
    /\ pc[1] = "done"
    /\ Len(files[1]) = 2
    /\ Count(log[1], "ok", "a.pdf") = 1
    /\ Count(log[1], "ok", "b.pdf") = 1
    /\ \E i, j \in DOMAIN db :
          /\ HasKey(json_loads(db[i].analysis_json).val, "error")
          /\ HasKey(json_loads(db[j].analysis_json).val, "raw_analysis")

\* C15: in every request a front end has sent the instruction prompt is
\* the first part, the document-text part (there only for a PDF) the
\* second and the page image the next; a Gemini request of app.py,
\* deploy_app.py or pippin_demo.py ends with the user prompt after the
\* image, and no other request has a part after the image.  The OpenAI
\* message deploy_app builds with insert(1, ...) has its parts in the order
\* of the one app.py builds with append.
PartKind(part) ==
    IF part.kind = "text" THEN (IF DocTextPart(part) THEN "document_text" ELSE "prompt")
    ELSE "image"

PartKinds(req) == [k \in DOMAIN Parts(req) |-> PartKind(Parts(req)[k])]

C15_Order(req, type, user_prompt_last) ==
    PartKinds(req) =
        <<"prompt">>
        \o (IF type = "pdf" THEN <<"document_text">> ELSE <<>>)
        \o <<"image">>
        \o (IF user_prompt_last THEN <<"prompt">> ELSE <<>>)

C16_Unreadable(u) ==
    IF u.type = "application/pdf"
    THEN u.data.fmt # "pdf" \/ u.data.pages = <<>>
    ELSE u.data.fmt # "png"

C16_Shown(status, key) == shown.status = status /\ shown.key = key

C16_Outcome ==
    IF ~inp.has_file
        THEN C16_Shown(400, "error") /\ shown.text = "No file provided"
             /\ sent = <<>> /\ fdata = None
    ELSE IF inp.filename = ""
        THEN C16_Shown(400, "error") /\ shown.text = "No file selected"
             /\ sent = <<>> /\ fdata = None
    ELSE IF C16_Unreadable(Upload)
        THEN C16_Shown(500, "error") /\ sent = <<>>
    ELSE IF inp.reply.raises
        THEN C16_Shown(500, "error") /\ shown.text = inp.reply.text /\ Len(sent) = 1
    ELSE C16_Shown(200, "analysis") /\ shown.text = inp.reply.text /\ Len(sent) = 1

C16_HttpOutcomes ==
    /\ [](program \in {"api_gemini", "api_openai"} => C16_Outcome)
    /\ [][(program' \in {"api_gemini", "api_openai"} /\ shown'.status = 400)
             => tmpfiles' = tmpfiles]_vars

\* a request with a readable PDF was answered 500 because the model call
\* raised
C16_Witness ==
    /\ program = "api_gemini"
    /\ shown.status = 500
    /\ Len(sent) = 1
    /\ fdata # None

\* C17: in deploy_app, pressing 'Analyze Document' with the document type
\* 'Document with Prompt' and a custom prompt that is empty or only
\* whitespace sends no request and shows the warning; a request whose
\* prompt is built from the custom template is sent only with a custom
\* prompt that has a non-whitespace character.
C17_Blank(s) == \A k \in 1..Len(s) : SubSeq(s, k, k) \in Whitespace

C17_CustomCall(req) ==
    \E k \in DOMAIN Parts(req) :
        /\ Parts(req)[k].kind = "text"
        /\ Contains(Parts(req)[k].text, "according to the following instructions")

C17_CustomPromptGuard ==
    program = "deploy" =>
        /\ (/\ inp.submit
            /\ fdata # None
            /\ inp.document_type = "Document with Prompt"
            /\ C17_Blank(inp.custom))
           => (/\ sent = <<>>
               /\ shown.key = "warning"
               /\ shown.text = "Please enter a custom prompt before analyzing the document.")
        /\ (sent # <<>> /\ C17_CustomCall(sent[1]))
           => (inp.document_type = "Document with Prompt" /\ ~C17_Blank(inp.custom))

\* the button was pressed with a custom prompt of one blank
C17_Witness ==
    /\ program = "deploy"
    /\ inp.submit
    /\ fdata # None
    /\ inp.document_type = "Document with Prompt"
    /\ inp.custom = " "

\* C18: in pippin_demo, whenever process_uploaded_file has returned for a
\* PDF, images holds the rendering of every page in page order, page_count
\* is the number of pages, first_image is images[0] and text is the text of
\* all pages; for any other upload images is the one opened image and
\* page_count is 1.  Every request sent carries exactly one image, and it
\* is the first page's, whatever the page count.
C18_Rendering(page) == [src |-> "page", dpi |-> 300, pix |-> page.pix]

C18_ImageParts(req) ==
    {k \in DOMAIN Parts(req) : Parts(req)[k].kind \in {"image", "image_url"}}

C18_FileData(fd) ==
    IF Upload.type = "application/pdf"
    THEN LET pages == Upload.data.pages IN
         /\ Len(fd.images) = Len(pages)
         /\ fd.page_count = Len(pages)
         /\ \A k \in 1..Len(pages) : fd.images[k] = C18_Rendering(pages[k])
         /\ fd.first_image = fd.images[1]
         /\ fd.text = Some(C6_PageTexts(pages))
    ELSE /\ fd.images = <<[src |-> "upload", dpi |-> 0, pix |-> Upload.data.pix]>>
         /\ fd.first_image = fd.images[1]
         /\ fd.page_count = 1

C18_AllPagesOneImage ==
    (program = "pippin" /\ fdata # None) =>
        /\ C18_FileData(fdata[1])
        /\ sent # <<>> =>
            /\ Cardinality(C18_ImageParts(sent[1])) = 1
            /\ \A k \in C18_ImageParts(sent[1]) :
                   CarriesImage(Parts(sent[1])[k], fdata[1].images[1])

\* a request was sent for a PDF of two different pages
C18_Witness ==
    /\ program = "pippin"
    /\ fdata # None
    /\ sent # <<>>
    /\ Upload.type = "application/pdf"
    /\ Len(fdata[1].images) = 2
    /\ fdata[1].images[1] # fdata[1].images[2]

\* C19: when analyze_invoice has returned {"error": ...} for a file, the
\* INSERT stores exactly that text as the file's row and success is
\* reported; the row stays, and from then on no run analyses the file
\* again: every later look at it is a skip.
C19_IsError(json) == StartsWith(json, 1, "{\"error\": ")

C19_Failed(f) ==
    \E i \in DOMAIN db : db[i].file_name = f /\ C19_IsError(db[i].analysis_json)

C19_Persisted(p) ==
    (pc[p] = "insert" /\ pc'[p] # "insert" /\ C19_IsError(analysis[p])) =>
        /\ Len(db') = Len(db) + 1
        /\ db'[Len(db')].file_name = FileName(p)
        /\ db'[Len(db')].analysis_json = analysis[p]
        /\ log'[p] = Append(log[p], Ev("ok", FileName(p)))

C19_Skipped(p) ==
    \A f \in FileNames :
        C19_Failed(f) =>
            /\ C19_Failed(f)'
            /\ Count(log'[p], "analyze", f) <= Count(log[p], "analyze", f)
            /\ Count(log'[p], "api", f) <= Count(log[p], "api", f)
            /\ (pc[p] = "select" /\ FileName(p) = f /\ pc'[p] # "select")
               => log'[p] = Append(log[p], Ev("skip", f))

C19_FailurePersisted == [][\A p \in Procs : C19_Persisted(p) /\ C19_Skipped(p)]_vars

\* the second run has skipped a file whose stored analysis is an error
C19_Witness ==
    /\ runs = 2
    /\ \E f \in FileNames :
        /\ C19_Failed(f)
        /\ Count(log[1], "skip", f) = 1

\* C20: with two runs of process_invoices working through the same
\* directory against the same table, no file name is ever stored twice, no
\* run stops in the middle of its list, and when both runs are over, each
\* file that both of them found unprocessed has exactly one row, the one
\* whose INSERT succeeded.
C20_Has(p, k, f) == \E i \in DOMAIN log[p] : log[p][i] = Ev(k, f)

C20_BothPassed(f) == \A p \in Procs : C20_Has(p, "processing", f)

C20_OneInsertWins ==
    /\ \A i, j \in DOMAIN db : db[i].file_name = db[j].file_name => i = j
    /\ \A p \in Procs : pc[p] # "crashed"
    /\ (\A p \in Procs : pc[p] = "done") =>
        \A f \in Listing("inbox") :
            C20_BothPassed(f) =>
                Cardinality({i \in DOMAIN db : db[i].file_name = f}) = 1

\* C21: a script run or request that hands a PDF upload to
\* process_uploaded_file leaves no temporary file behind, whether the call
\* returns or raises: the number of temporary files on disk is the same
\* after it as before.
C21_PdfUpload(i) == i.upload # None /\ i.upload[1].type = "application/pdf"

C21_TempFileRemoved ==
    [][(program' \in FrontEnds /\ C21_PdfUpload(inp')) => tmpfiles' = tmpfiles]_vars

\* C22: whenever deploy_app has sent a request, a label whose provider is
\* 'google' was sent as a Gemini content list and a label whose provider is
\* 'openai' as an OpenAI chat-message list, and the model identifier the
\* request went to is the one of no other selectable label.
C22_Shape(req) ==
    IF "content" \in DOMAIN req THEN "google"
    ELSE IF "messages" \in DOMAIN req THEN "openai"
    ELSE "none"

C22_OwnModel ==
    (program = "deploy" /\ sent # <<>>) =>
        LET label == inp.ai_service
            req == sent[1]
        IN  /\ C22_Shape(req) = deploy_models[label][1]
            /\ req.provider = deploy_models[label][1]
            /\ \A other \in DOMAIN deploy_models \ {label} :
                   deploy_models[other][2] # req.model
====
